---- MODULE Spec2Model ----
(***************************************************************************)
(* Model of runtimeExtensionsEditor.ts: the RuntimeExtensionsEditor's      *)
(* record resolution (_resolveExtensions / _updateExtensions /             *)
(* setProfileInfo), its debounced refresh, and the profile session state   *)
(* machine of ExtensionHostProfileAction.                                  *)
(***************************************************************************)
EXTENDS Integers, Sequences, FiniteSets, Bags, TLC

(***************************************************************************)
(* Bounds of the model.                                                    *)
(***************************************************************************)
\* how many ExtensionHostProfileAction objects getActions() hands out
MaxActions == 2
\* how many sessions the extension host hands out; later starts fail
MaxSessions == 2
\* how many deltas a trace of the resolver's inputs has at most
MaxDeltas == 2

(***************************************************************************)
(* Values.                                                                 *)
(***************************************************************************)
\* JavaScript null / undefined; records, so that they compare with records
Null == [null |-> TRUE]
Undefined == [undefined |-> TRUE]

\* const enum ProfileSessionState
None == 0
Starting == 1
Running == 2
Stopping == 3

\* ExtensionHostProfileAction.LABEL_START / LABEL_STOP, START_CSS_CLASS / STOP_CSS_CLASS
LABEL_START == "Start Extension Host Profile"
LABEL_STOP == "Stop Extension Host Profile"
START_CSS_CLASS == "extension-host-profile-start"
STOP_CSS_CLASS == "extension-host-profile-stop"

\* _profileSession = null
NoSession == 0

\* identifiers of the extensions the host knows; "T" has no entry point
ExtensionIds == {"A", "B", "C"}
ThemeId == "T"

\* IExtensionDescription, reduced to the two fields the editor reads
Description(id, main) == [id |-> id, main |-> main]

\* what getExtensions() may resolve to
HostExtensionLists ==
    { <<Description("A", TRUE), Description(ThemeId, FALSE), Description("B", TRUE)>> }

\* IExtensionsStatus: messages (their number) and activationTimes (present or not)
ActivationTimes == [startup |-> TRUE]
Status(messages, activated) ==
    [messages |-> messages, activationTimes |-> IF activated THEN ActivationTimes ELSE Undefined]
\* an entry of the status map: no entry under that identifier, the status of
\* an extension that failed before it activated, that of an activated one
StatusEntries == {Undefined, Status(1, FALSE), Status(0, TRUE)}

\* _extensionsWorkbenchService.local: the identifiers of the installed
\* extensions the marketplace map gets an entry for
LocalSets == { {"A"} }

\* IExtensionHostProfile: the traces a stopped session may return
Profile(startTime, ids, deltas, endTime) ==
    [startTime |-> startTime, endTime |-> endTime, ids |-> ids, deltas |-> deltas]
Profiles ==
    { Profile(1000, <<"A", "B", "A">>, <<500, 300, 200>>, 2000),
      Profile(0, <<"idle", "B", "self", "B">>, <<1, 2, 1, 2>>, 6) }

(***************************************************************************)
(* The inputs of _resolveExtensions taken alone (specification             *)
(* SpecResolve): more extensions, every status map, generated traces.      *)
(***************************************************************************)
ResolveHostLists ==
    { <<Description("A", TRUE), Description("B", TRUE), Description("C", TRUE)>>,
      <<Description("C", TRUE), Description(ThemeId, FALSE), Description("A", TRUE), Description("B", TRUE)>>,
      <<Description("B", TRUE), Description("A", TRUE)>> }
ResolveLocalSets == { {}, {"A", "C"} }
TraceLabels == {"A", "B", "C", "idle"}
DeltaValues == {0, 2}
RECURSIVE SumSeq(_)
SumSeq(q) == IF q = <<>> THEN 0 ELSE Head(q) + SumSeq(Tail(q))
\* a trace of three entries, two of them of one extension
ScenarioProfile == Profile(1000, <<"A", "B", "A">>, <<500, 300, 200>>, 2000)
ResolveProfiles ==
    { Profile(10, ids, deltas, 10 + SumSeq(deltas)) :
        <<ids, deltas>> \in UNION { [1..n -> TraceLabels] \X [1..n -> DeltaValues] : n \in 0..MaxDeltas } }
    \cup {ScenarioProfile}

VARIABLES
    \* RuntimeExtensionsEditor
    _profileInfo,             \* IExtensionHostProfile or Null
    _elements,                \* IRuntimeExtension[] or Null
    _extensionsDescriptions,  \* IExtensionDescription[]
    _updateSoon,              \* RunOnceScheduler: TRUE while a timeout is armed
    \* collaborators of the editor
    extensionsLoaded,         \* getExtensions() has resolved
    statusMap,                \* IExtensionService.getExtensionsStatus()
    local,                    \* IExtensionsWorkbenchService.local (identifiers)
    \* ExtensionHostProfileAction objects, by number 1..actions
    actions,                  \* how many getActions() has created
    _state,                   \* ProfileSessionState of each
    _profileSession,          \* ProfileSession of each (NoSession = null)
    label,                    \* Action.label of each
    class,                    \* Action.class of each
    \* the extension host
    requests,                 \* bag of outstanding start / stop requests
    sessionsCreated,          \* sessions handed out so far
    published,                \* per session: times its trace went to setProfileInfo
    hostExtensions,           \* the extensions getExtensions() resolves to
    \* observation
    lastOp,                   \* the handler that ran last
    thrown,                   \* it ended by an uncaught exception
    errors                    \* its calls of onUnexpectedError

vars == <<_profileInfo, _elements, _extensionsDescriptions, _updateSoon,
          extensionsLoaded, statusMap, local,
          actions, _state, _profileSession, label, class,
          requests, sessionsCreated, published, hostExtensions,
          lastOp, thrown, errors>>

editorVars == <<_profileInfo, _elements, _extensionsDescriptions, _updateSoon, extensionsLoaded>>
serviceVars == <<statusMap, local, hostExtensions>>
actionVars == <<actions, _state, _profileSession, label, class>>
hostVars == <<requests, sessionsCreated, published>>

Actions == 1..MaxActions
Sessions == 1..MaxSessions

(***************************************************************************)
(* _resolveExtensions                                                      *)
(***************************************************************************)
\* labels a trace may carry
Labels == ExtensionIds \cup {ThemeId, "idle", "self"}

\* marketplaceMap[id]: the local extension under that identifier, or undefined
marketplaceMap(loc) ==
    [id \in Labels |-> IF id \in loc THEN [id |-> id] ELSE Undefined]

\* mutant: the cursor stays at startTime, every interval begins there
RECURSIVE GroupSegmentsFromStart(_, _, _, _)
GroupSegmentsFromStart(profile, i, currentStartTime, segs) ==
    IF i > Len(profile.deltas) THEN segs
    ELSE LET id == profile.ids[i]
             delta == profile.deltas[i]
             next == currentStartTime + delta
         IN GroupSegmentsFromStart(profile, i + 1, currentStartTime,
                [segs EXCEPT ![id] = Append(Append(@, currentStartTime), next)])

\* mutant: the entries of the sentinel "idle" get no interval
RECURSIVE GroupSegmentsSkipIdle(_, _, _, _)
GroupSegmentsSkipIdle(profile, i, currentStartTime, segs) ==
    IF i > Len(profile.deltas) THEN segs
    ELSE LET id == profile.ids[i]
             delta == profile.deltas[i]
             next == currentStartTime + delta
         IN GroupSegmentsSkipIdle(profile, i + 1, next,
                IF id = "idle" THEN segs
                ELSE [segs EXCEPT ![id] = Append(Append(@, currentStartTime), next)])

\* lines 137-155: group profile segments by extension. segs maps a label to
\* its flat array (2*i start, 2*i+1 end); a label without entry has <<>>
RECURSIVE GroupSegments(_, _, _, _)
GroupSegments(profile, i, currentStartTime, segs) ==
    IF i > Len(profile.deltas) THEN segs
    ELSE LET id == profile.ids[i]
             delta == profile.deltas[i]
             next == currentStartTime + delta
         IN GroupSegments(profile, i + 1, next,
                [segs EXCEPT ![id] = Append(Append(@, currentStartTime), next)])

segments(profile) ==
    IF profile = Null THEN [id \in Labels |-> <<>>]
    ELSE GroupSegments(profile, 1, profile.startTime, [id \in Labels |-> <<>>])

\* mutant: the length of the first segment alone
TotalTimeOfFirst(extensionSegments, j) ==
    IF Len(extensionSegments) < 2 THEN 0
    ELSE extensionSegments[2] - extensionSegments[1]

\* lines 164-169: sum of the segment lengths
RECURSIVE TotalTime(_, _)
TotalTime(extensionSegments, j) ==
    IF j > Len(extensionSegments) \div 2 THEN 0
    ELSE (extensionSegments[2 * j] - extensionSegments[2 * j - 1])
         + TotalTime(extensionSegments, j + 1)

\* mutant: without trace a record gets the profile information of an empty trace
ProfileInformationOfEmptyTrace(profile, id) ==
    IF profile = Null THEN [segments |-> <<>>, totalTime |-> 0]
    ELSE LET extensionSegments == segments(profile)[id]
         IN [segments |-> extensionSegments, totalTime |-> TotalTime(extensionSegments, 1)]

\* lines 161-174
ProfileInformation(profile, id) ==
    IF profile = Null THEN Null
    ELSE LET extensionSegments == segments(profile)[id]
         IN [segments |-> extensionSegments, totalTime |-> TotalTime(extensionSegments, 1)]

\* mutant: the index counted from 1
RuntimeExtensionOneBased(descs, i, stat, loc, profile) ==
    [originalIndex |-> i + 1,
     description |-> descs[i + 1],
     marketplaceInfo |-> marketplaceMap(loc)[descs[i + 1].id],
     status |-> stat[descs[i + 1].id],
     profileInfo |-> ProfileInformation(profile, descs[i + 1].id)]

\* lines 176-182: result[i], i counted from 0 as in the source
RuntimeExtension(descs, i, stat, loc, profile) ==
    [originalIndex |-> i,
     description |-> descs[i + 1],
     marketplaceInfo |-> marketplaceMap(loc)[descs[i + 1].id],
     status |-> stat[descs[i + 1].id],
     profileInfo |-> ProfileInformation(profile, descs[i + 1].id)]

\* lines 157-183: one record per description
AllRecords(descs, stat, loc, profile) ==
    [k \in 1..Len(descs) |-> RuntimeExtension(descs, k - 1, stat, loc, profile)]

\* line 185: element.status.activationTimes of a record without status throws
FilterThrows(result) ==
    \E k \in 1..Len(result) : result[k].status = Undefined

\* mutant: an extension with messages passes the filter too
ActivatedOrFailed(element) ==
    element.status.activationTimes # Undefined \/ element.status.messages > 0

\* line 185: result.filter((element) => element.status.activationTimes)
Activated(element) == element.status.activationTimes # Undefined
FilterActivated(result) == SelectSeq(result, Activated)

\* mutant: ascending by time
CompareAscending(a, b) ==
    IF a.profileInfo.totalTime = b.profileInfo.totalTime
    THEN a.originalIndex - b.originalIndex
    ELSE a.profileInfo.totalTime - b.profileInfo.totalTime

\* lines 189-194: the comparator
CompareByProfile(a, b) ==
    IF a.profileInfo.totalTime = b.profileInfo.totalTime
    THEN a.originalIndex - b.originalIndex
    ELSE b.profileInfo.totalTime - a.profileInfo.totalTime

\* Array.prototype.sort with a comparator: insertion, an element going
\* behind everything it does not compare less than
RECURSIVE InsertSorted(_, _)
InsertSorted(x, sorted) ==
    IF sorted = <<>> THEN <<x>>
    ELSE IF CompareByProfile(x, Head(sorted)) < 0 THEN <<x>> \o sorted
    ELSE <<Head(sorted)>> \o InsertSorted(x, Tail(sorted))

RECURSIVE SortByProfile(_)
SortByProfile(result) ==
    IF result = <<>> THEN <<>>
    ELSE InsertSorted(result[Len(result)], SortByProfile(SubSeq(result, 1, Len(result) - 1)))

\* lines 128-198, when the filter does not throw
ResolveExtensions(descs, stat, loc, profile) ==
    LET filtered == FilterActivated(AllRecords(descs, stat, loc, profile))
    IN IF profile # Null THEN SortByProfile(filtered) ELSE filtered

ResolveThrows(descs, stat, loc, profile) ==
    FilterThrows(AllRecords(descs, stat, loc, profile))

(***************************************************************************)
(* Initial state: the editor constructed (lines 80-110), no action yet.    *)
(***************************************************************************)
Init ==
    /\ _profileInfo = Null
    /\ _extensionsDescriptions = <<>>
    /\ _elements = <<>>
    /\ _updateSoon = FALSE
    /\ extensionsLoaded = FALSE
    /\ statusMap = [id \in ExtensionIds |-> Undefined]
    /\ local \in LocalSets
    /\ actions = 0
    /\ _state = [a \in Actions |-> None]
    /\ _profileSession = [a \in Actions |-> NoSession]
    /\ label = [a \in Actions |-> LABEL_START]
    /\ class = [a \in Actions |-> START_CSS_CLASS]
    /\ requests = EmptyBag
    /\ sessionsCreated = 0
    /\ published = [s \in Sessions |-> 0]
    /\ hostExtensions \in HostExtensionLists
    /\ lastOp = "constructor"
    /\ thrown = FALSE
    /\ errors = 0

(***************************************************************************)
(* RuntimeExtensionsEditor                                                 *)
(***************************************************************************)
\* mutant: the list is patched, not recomputed: a list of as many records as
\* the new one is kept as it is
UpdateExtensionsInPlace(descs, stat, loc, profile) ==
    /\ thrown' = ResolveThrows(descs, stat, loc, profile)
    /\ errors' = 0
    /\ _elements' = IF ResolveThrows(descs, stat, loc, profile)
                       \/ Len(ResolveExtensions(descs, stat, loc, profile)) = Len(_elements)
                    THEN _elements
                    ELSE ResolveExtensions(descs, stat, loc, profile)

\* lines 121-126: this._elements = this._resolveExtensions(); an exception
\* of _resolveExtensions leaves _elements as it was
UpdateExtensions(descs, stat, loc, profile) ==
    /\ thrown' = ResolveThrows(descs, stat, loc, profile)
    /\ errors' = 0
    /\ _elements' = IF ResolveThrows(descs, stat, loc, profile)
                    THEN _elements
                    ELSE ResolveExtensions(descs, stat, loc, profile)

\* RunOnceScheduler (vs/base/common/async): schedule() cancels the timeout
\* that is armed, if any, and arms one; the timeout disarms it and calls the runner
schedule(armed) == TRUE
onTimeout(armed) == FALSE

\* lines 93-95: We only deal with extensions with source code!
WithSourceCode(extension) == extension.main
FilterMain(extensions) == SelectSeq(extensions, WithSourceCode)

\* lines 91-109: getExtensions() resolves
GetExtensionsThen ==
    /\ ~extensionsLoaded
    /\ _extensionsDescriptions' = FilterMain(hostExtensions)
    /\ UpdateExtensions(FilterMain(hostExtensions), statusMap, local, _profileInfo)
    /\ extensionsLoaded' = TRUE
    /\ lastOp' = "getExtensionsThen"
    /\ UNCHANGED <<_profileInfo, _updateSoon, serviceVars, actionVars, hostVars>>

\* mutant: every notification resolves at once, nothing is scheduled
DidChangeResolvesAtOnce ==
    /\ \E k \in 1..Len(FilterMain(hostExtensions)), entry \in StatusEntries :
          /\ statusMap' = [statusMap EXCEPT ![FilterMain(hostExtensions)[k].id] = entry]
          /\ UpdateExtensions(_extensionsDescriptions,
                              [statusMap EXCEPT ![FilterMain(hostExtensions)[k].id] = entry],
                              local, _profileInfo)
    /\ lastOp' = "onDidChangeExtensionsStatus"
    /\ UNCHANGED <<_profileInfo, _updateSoon, _extensionsDescriptions, extensionsLoaded,
                   local, hostExtensions, actionVars, hostVars>>

\* line 110: the extension service changes the status of an extension (or
\* changes nothing this model shows) and fires onDidChangeExtensionsStatus:
\* this._updateSoon.schedule()
DidChangeExtensionsStatus ==
    /\ \E k \in 1..Len(FilterMain(hostExtensions)), entry \in StatusEntries :
          statusMap' = [statusMap EXCEPT ![FilterMain(hostExtensions)[k].id] = entry]
    /\ _updateSoon' = schedule(_updateSoon)
    /\ lastOp' = "onDidChangeExtensionsStatus"
    /\ thrown' = FALSE
    /\ errors' = 0
    /\ UNCHANGED <<_profileInfo, _elements, _extensionsDescriptions, extensionsLoaded,
                   local, hostExtensions, actionVars, hostVars>>

\* line 89: the scheduler's timeout expires and runs _updateExtensions
UpdateSoonTimeout ==
    /\ _updateSoon
    /\ _updateSoon' = onTimeout(_updateSoon)
    /\ UpdateExtensions(_extensionsDescriptions, statusMap, local, _profileInfo)
    /\ lastOp' = "updateSoon"
    /\ UNCHANGED <<_profileInfo, _extensionsDescriptions, extensionsLoaded,
                   serviceVars, actionVars, hostVars>>

\* lines 372-374: getActions() creates a new ExtensionHostProfileAction;
\* lines 488-496: its constructor
GetActions ==
    /\ actions < MaxActions
    /\ actions' = actions + 1
    /\ _profileSession' = [_profileSession EXCEPT ![actions + 1] = NoSession]
    /\ _state' = [_state EXCEPT ![actions + 1] = None]
    /\ label' = [label EXCEPT ![actions + 1] = LABEL_START]
    /\ class' = [class EXCEPT ![actions + 1] = START_CSS_CLASS]
    /\ lastOp' = "getActions"
    /\ thrown' = FALSE
    /\ errors' = 0
    /\ UNCHANGED <<editorVars, serviceVars, hostVars>>

(***************************************************************************)
(* ExtensionHostProfileAction                                              *)
(***************************************************************************)
Request(a, kind, session) == [by |-> a, kind |-> kind, session |-> session]
Issue(r) == requests (+) SetToBag({r})
Complete(r) == requests (-) SetToBag({r})

\* lines 498-506: update(), reading the _profileSession of that moment
UpdatedLabel(session) == IF session # NoSession THEN LABEL_STOP ELSE LABEL_START
UpdatedClass(session) == IF session # NoSession THEN STOP_CSS_CLASS ELSE START_CSS_CLASS

\* lines 508-511: _setState(state) of action a whose _profileSession is session
SetState(a, state, session) ==
    /\ _state' = [_state EXCEPT ![a] = state]
    /\ label' = [label EXCEPT ![a] = UpdatedLabel(session)]
    /\ class' = [class EXCEPT ![a] = UpdatedClass(session)]

\* mutant: run() in None enters Running at once
RunNoneEntersRunning(a) ==
    /\ SetState(a, Running, _profileSession[a])
    /\ requests' = Issue(Request(a, "start", NoSession))
    /\ UNCHANGED <<_profileSession, sessionsCreated, published>>

\* lines 515-524: case ProfileSessionState.None
RunNone(a) ==
    /\ SetState(a, Starting, _profileSession[a])
    /\ requests' = Issue(Request(a, "start", NoSession))
    /\ UNCHANGED <<_profileSession, sessionsCreated, published>>

\* mutant: the session is dropped before _setState(Stopping) updates the label
RunRunningDropsFirst(a) ==
    /\ SetState(a, Stopping, NoSession)
    /\ requests' = Issue(Request(a, "stop", _profileSession[a]))
    /\ _profileSession' = [_profileSession EXCEPT ![a] = NoSession]
    /\ UNCHANGED <<sessionsCreated, published>>

\* mutant: the session is kept while it stops
RunRunningKeepsSession(a) ==
    /\ SetState(a, Stopping, _profileSession[a])
    /\ requests' = Issue(Request(a, "stop", _profileSession[a]))
    /\ UNCHANGED <<_profileSession, sessionsCreated, published>>

\* lines 527-539: case ProfileSessionState.Running
RunRunning(a) ==
    /\ SetState(a, Stopping, _profileSession[a])
    /\ requests' = Issue(Request(a, "stop", _profileSession[a]))
    /\ _profileSession' = [_profileSession EXCEPT ![a] = NoSession]
    /\ UNCHANGED <<sessionsCreated, published>>

\* mutant: run() in Starting or Stopping asks the host to start again
RunIgnoredStartsAgain(a) ==
    /\ requests' = Issue(Request(a, "start", NoSession))
    /\ UNCHANGED <<_state, label, class, _profileSession, sessionsCreated, published>>

\* lines 525-526, 540-541: case Starting, case Stopping
RunIgnored(a) ==
    UNCHANGED <<_state, label, class, _profileSession, hostVars>>

\* the case of run()'s switch that is taken
RunCase(state) ==
    CASE state = None -> "run/None"
      [] state = Starting -> "run/Starting"
      [] state = Running -> "run/Running"
      [] state = Stopping -> "run/Stopping"

\* lines 513-545: run()
Run(a) ==
    /\ a \in 1..actions
    /\ CASE _state[a] = None -> RunNone(a)
         [] _state[a] = Running -> RunRunning(a)
         [] OTHER -> RunIgnored(a)
    /\ lastOp' = RunCase(_state[a])
    /\ thrown' = FALSE
    /\ errors' = 0
    /\ UNCHANGED <<actions, editorVars, serviceVars>>

\* mutant: a session that starts clears the trace of the session before
StartThenClearsTrace(a) ==
    /\ Request(a, "start", NoSession) \in BagToSet(requests)
    /\ sessionsCreated < MaxSessions
    /\ requests' = Complete(Request(a, "start", NoSession))
    /\ sessionsCreated' = sessionsCreated + 1
    /\ _profileSession' = [_profileSession EXCEPT ![a] = sessionsCreated + 1]
    /\ SetState(a, Running, sessionsCreated + 1)
    /\ _profileInfo' = Null
    /\ lastOp' = "startThen"
    /\ thrown' = FALSE
    /\ errors' = 0
    /\ UNCHANGED <<actions, _elements, _extensionsDescriptions, _updateSoon,
                   extensionsLoaded, serviceVars, published>>

\* lines 517-520: startExtensionHostProfile() succeeded
StartThen(a) ==
    /\ Request(a, "start", NoSession) \in BagToSet(requests)
    /\ sessionsCreated < MaxSessions
    /\ requests' = Complete(Request(a, "start", NoSession))
    /\ sessionsCreated' = sessionsCreated + 1
    /\ _profileSession' = [_profileSession EXCEPT ![a] = sessionsCreated + 1]
    /\ SetState(a, Running, sessionsCreated + 1)
    /\ lastOp' = "startThen"
    /\ thrown' = FALSE
    /\ errors' = 0
    /\ UNCHANGED <<actions, editorVars, serviceVars, published>>

\* mutant: a failed start is reported and asked for again
StartErrorRetries(a) ==
    /\ Request(a, "start", NoSession) \in BagToSet(requests)
    /\ requests' = requests
    /\ errors' = 1
    /\ lastOp' = "startError"
    /\ thrown' = FALSE
    /\ UNCHANGED <<actionVars, editorVars, serviceVars, sessionsCreated, published>>

\* lines 520-523: startExtensionHostProfile() failed
StartError(a) ==
    /\ Request(a, "start", NoSession) \in BagToSet(requests)
    /\ requests' = Complete(Request(a, "start", NoSession))
    /\ errors' = 1
    /\ SetState(a, None, _profileSession[a])
    /\ lastOp' = "startError"
    /\ thrown' = FALSE
    /\ UNCHANGED <<actions, _profileSession, editorVars, serviceVars,
                   sessionsCreated, published>>

\* lines 116-119: setProfileInfo(profileInfo)
SetProfileInfo(profileInfo) ==
    /\ _profileInfo' = profileInfo
    /\ UpdateExtensions(_extensionsDescriptions, statusMap, local, profileInfo)

\* mutant: the trace is stored and the refresh scheduled, no resolve now
StopThenSchedules(a) ==
    \E session \in Sessions, result \in Profiles :
        /\ Request(a, "stop", session) \in BagToSet(requests)
        /\ requests' = Complete(Request(a, "stop", session))
        /\ published' = [published EXCEPT ![session] = @ + 1]
        /\ _profileInfo' = result
        /\ _updateSoon' = schedule(_updateSoon)
        /\ SetState(a, None, _profileSession[a])
        /\ lastOp' = "stopThen"
        /\ thrown' = FALSE
        /\ errors' = 0
        /\ UNCHANGED <<actions, _profileSession, _extensionsDescriptions, _elements,
                       extensionsLoaded, serviceVars, sessionsCreated>>

\* lines 529-534: stop() of a session succeeded with a trace. When
\* setProfileInfo throws, the rest of the callback does not run.
StopThen(a) ==
    \E session \in Sessions, result \in Profiles :
        /\ Request(a, "stop", session) \in BagToSet(requests)
        /\ requests' = Complete(Request(a, "stop", session))
        /\ published' = [published EXCEPT ![session] = @ + 1]
        /\ SetProfileInfo(result)
        /\ IF ResolveThrows(_extensionsDescriptions, statusMap, local, result)
           THEN UNCHANGED <<_state, label, class>>
           ELSE SetState(a, None, _profileSession[a])
        /\ lastOp' = "stopThen"
        /\ UNCHANGED <<actions, _profileSession, _extensionsDescriptions, _updateSoon,
                       extensionsLoaded, serviceVars, sessionsCreated>>

\* mutant: a failed stop clears the trace shown
StopErrorClearsTrace(a) ==
    \E session \in Sessions :
        /\ Request(a, "stop", session) \in BagToSet(requests)
        /\ requests' = Complete(Request(a, "stop", session))
        /\ _profileInfo' = Null
        /\ _elements' = IF ResolveThrows(_extensionsDescriptions, statusMap, local, Null)
                        THEN _elements
                        ELSE ResolveExtensions(_extensionsDescriptions, statusMap, local, Null)
        /\ errors' = 1
        /\ SetState(a, None, _profileSession[a])
        /\ lastOp' = "stopError"
        /\ thrown' = FALSE
        /\ UNCHANGED <<actions, _profileSession, _extensionsDescriptions, _updateSoon,
                       extensionsLoaded, serviceVars, sessionsCreated, published>>

\* lines 534-537: stop() of a session failed
StopError(a) ==
    \E session \in Sessions :
        /\ Request(a, "stop", session) \in BagToSet(requests)
        /\ requests' = Complete(Request(a, "stop", session))
        /\ errors' = 1
        /\ SetState(a, None, _profileSession[a])
        /\ lastOp' = "stopError"
        /\ thrown' = FALSE
        /\ UNCHANGED <<actions, _profileSession, editorVars, serviceVars,
                       sessionsCreated, published>>

\* the editor alone, a refresh scheduled, before getExtensions() resolves;
\* _profileInfo as an earlier session left it
InitResolve ==
    /\ _profileInfo \in ResolveProfiles \cup {Null}
    /\ _extensionsDescriptions = <<>>
    /\ _elements = <<>>
    /\ _updateSoon = TRUE
    /\ extensionsLoaded = FALSE
    /\ hostExtensions \in ResolveHostLists
    /\ statusMap \in [ExtensionIds -> StatusEntries]
    /\ local \in ResolveLocalSets
    /\ actions = 0
    /\ _state = [a \in Actions |-> None]
    /\ _profileSession = [a \in Actions |-> NoSession]
    /\ label = [a \in Actions |-> LABEL_START]
    /\ class = [a \in Actions |-> START_CSS_CLASS]
    /\ requests = EmptyBag
    /\ sessionsCreated = 0
    /\ published = [s \in Sessions |-> 0]
    /\ lastOp = "constructor"
    /\ thrown = FALSE
    /\ errors = 0

NextResolve ==
    \/ GetExtensionsThen
    \/ UpdateSoonTimeout

SpecResolve == InitResolve /\ [][NextResolve]_vars

Next ==
    \/ GetExtensionsThen
    \/ DidChangeExtensionsStatus
    \/ UpdateSoonTimeout
    \/ GetActions
    \/ \E a \in Actions : Run(a)
    \/ \E a \in Actions : StartThen(a)
    \/ \E a \in Actions : StartError(a)
    \/ \E a \in Actions : StopThen(a)
    \/ \E a \in Actions : StopError(a)

Spec == Init /\ [][Next]_vars

\* the profiling sessions alone: the statuses are whatever the extension host
\* reported before the editor opened, and do not change while it is open
InitSession ==
    /\ _profileInfo = Null
    /\ _extensionsDescriptions = <<>>
    /\ _elements = <<>>
    /\ _updateSoon = FALSE
    /\ extensionsLoaded = FALSE
    /\ hostExtensions \in HostExtensionLists
    /\ statusMap \in { m \in [ExtensionIds -> StatusEntries] :
                            m["C"] = Undefined }
    /\ local \in LocalSets
    /\ actions = 0
    /\ _state = [a \in Actions |-> None]
    /\ _profileSession = [a \in Actions |-> NoSession]
    /\ label = [a \in Actions |-> LABEL_START]
    /\ class = [a \in Actions |-> START_CSS_CLASS]
    /\ requests = EmptyBag
    /\ sessionsCreated = 0
    /\ published = [s \in Sessions |-> 0]
    /\ lastOp = "constructor"
    /\ thrown = FALSE
    /\ errors = 0

NextSession ==
    \/ GetExtensionsThen
    \/ GetActions
    \/ \E a \in Actions : Run(a)
    \/ \E a \in Actions : StartThen(a)
    \/ \E a \in Actions : StartError(a)
    \/ \E a \in Actions : StopThen(a)
    \/ \E a \in Actions : StopError(a)

SpecSession == InitSession /\ [][NextSession]_vars

\* the same, every request the host holds completing in the end, with
\* success or with failure
SpecSessionFair ==
    /\ SpecSession
    /\ \A a \in Actions : WF_vars(StartThen(a) \/ StartError(a))
    /\ \A a \in Actions : WF_vars(StopThen(a) \/ StopError(a))

\* the editor with the one profile action of its toolbar
NextEditor ==
    \/ GetExtensionsThen
    \/ DidChangeExtensionsStatus
    \/ UpdateSoonTimeout
    \/ GetActions /\ actions = 0
    \/ Run(1)
    \/ StartThen(1)
    \/ StartError(1)
    \/ StopThen(1)
    \/ StopError(1)

SpecEditor == Init /\ [][NextEditor]_vars

\* the refresh loop of the editor alone, under no trace or the trace an
\* earlier session left; the timeout of an armed scheduler fires in the end
InitRefresh ==
    /\ _profileInfo \in Profiles \cup {Null}
    /\ _extensionsDescriptions = <<>>
    /\ _elements = <<>>
    /\ _updateSoon = FALSE
    /\ extensionsLoaded = FALSE
    /\ hostExtensions \in HostExtensionLists
    /\ statusMap = [id \in ExtensionIds |-> Undefined]
    /\ local \in LocalSets
    /\ actions = 0
    /\ _state = [a \in Actions |-> None]
    /\ _profileSession = [a \in Actions |-> NoSession]
    /\ label = [a \in Actions |-> LABEL_START]
    /\ class = [a \in Actions |-> START_CSS_CLASS]
    /\ requests = EmptyBag
    /\ sessionsCreated = 0
    /\ published = [s \in Sessions |-> 0]
    /\ lastOp = "constructor"
    /\ thrown = FALSE
    /\ errors = 0

NextRefresh ==
    \/ GetExtensionsThen
    \/ DidChangeExtensionsStatus
    \/ UpdateSoonTimeout

SpecRefresh == InitRefresh /\ [][NextRefresh]_vars /\ WF_vars(UpdateSoonTimeout)

(***************************************************************************)
(* Requests a controller has outstanding at the extension host.            *)
(***************************************************************************)
RequestsOf(bag, a, kind) ==
    LET mine == { r \in BagToSet(bag) : r.by = a /\ r.kind = kind }
        RECURSIVE Count(_)
        Count(S) == IF S = {} THEN 0
                    ELSE LET r == CHOOSE r \in S : TRUE
                         IN CopiesIn(r, bag) + Count(S \ {r})
    IN Count(mine)
Outstanding(bag, a) == RequestsOf(bag, a, "start") + RequestsOf(bag, a, "stop")

\* nothing of the action objects other than a changes in the step
OthersUnchanged(a) ==
    \A b \in Actions \ {a} :
        /\ _state'[b] = _state[b]
        /\ _profileSession'[b] = _profileSession[b]
        /\ label'[b] = label[b]
        /\ class'[b] = class[b]
        /\ Outstanding(requests', b) = Outstanding(requests, b)

(***************************************************************************)
(* C1: the _state of an action object only ever changes None -> Starting   *)
(* (run() in None), Starting -> Running (start succeeded), Starting ->     *)
(* None (start failed), Running -> Stopping (run() in Running) and         *)
(* Stopping -> None (stop succeeded or failed).                            *)
(***************************************************************************)
C1_Step(a) ==
    _state'[a] # _state[a] =>
        \/ _state[a] = None /\ _state'[a] = Starting /\ lastOp' = "run/None"
        \/ _state[a] = Starting /\ _state'[a] = Running /\ lastOp' = "startThen"
        \/ _state[a] = Starting /\ _state'[a] = None /\ lastOp' = "startError"
        \/ _state[a] = Running /\ _state'[a] = Stopping /\ lastOp' = "run/Running"
        \/ _state[a] = Stopping /\ _state'[a] = None /\ lastOp' \in {"stopThen", "stopError"}
C1_OnlyCycleTransitions == [][\A a \in Actions : C1_Step(a)]_vars

\* a session went the whole cycle: its stop succeeded and the action is back in None
C1_Witness ==
    /\ lastOp = "stopThen" /\ ~thrown
    /\ actions = 1 /\ _state[1] = None /\ published[1] = 1

(***************************************************************************)
(* C2: a start request is issued only by run() in None and a stop request  *)
(* only by run() in Running, an action object never has more than one      *)
(* request outstanding, and run() in Starting or Stopping issues nothing   *)
(* and changes neither _state nor _profileSession.                         *)
(***************************************************************************)
C2_Step(a) ==
    /\ Outstanding(requests', a) <= 1
    /\ RequestsOf(requests', a, "start") > RequestsOf(requests, a, "start")
          => lastOp' = "run/None" /\ _state[a] = None
    /\ RequestsOf(requests', a, "stop") > RequestsOf(requests, a, "stop")
          => lastOp' = "run/Running" /\ _state[a] = Running
    /\ lastOp' \in {"run/Starting", "run/Stopping"}
          => /\ requests' = requests
             /\ _state' = _state
             /\ _profileSession' = _profileSession
C2_OneRequestAtATime == [][\A a \in Actions : C2_Step(a)]_vars

\* run() came twice while the start was pending: one start request is outstanding
C2_Witness ==
    /\ lastOp = "run/Starting"
    /\ actions = 1 /\ _state[1] = Starting
    /\ BagCardinality(requests) = 1
    /\ sessionsCreated = 0

(***************************************************************************)
(* C3: when a start request fails, its action object goes from Starting to *)
(* None, onUnexpectedError is called once, no session is stored, and no    *)
(* start request is issued by anything but a later run().                  *)
(***************************************************************************)
C3_Step ==
    /\ lastOp' = "startError" =>
          \E a \in Actions :
              /\ _state[a] = Starting /\ _state'[a] = None
              /\ errors' = 1
              /\ _profileSession'[a] = NoSession
              /\ Outstanding(requests', a) = 0
              /\ sessionsCreated' = sessionsCreated
              /\ OthersUnchanged(a)
    /\ \A a \in Actions :
          RequestsOf(requests', a, "start") > RequestsOf(requests, a, "start")
              => lastOp' = "run/None"
C3_StartFailure == [][C3_Step]_vars

\* a start failed: the action is back in None with nothing outstanding
C3_Witness ==
    /\ lastOp = "startError" /\ errors = 1
    /\ actions = 1 /\ _state[1] = None /\ _profileSession[1] = NoSession
    /\ requests = EmptyBag

(***************************************************************************)
(* C4: when a stop request fails, its action object goes from Stopping to  *)
(* None, onUnexpectedError is called once and no trace is published:       *)
(* neither requesting the stop nor its failure changes _profileInfo or     *)
(* _elements.                                                              *)
(***************************************************************************)
C4_Step ==
    /\ lastOp' = "stopError" =>
          \E a \in Actions :
              /\ _state[a] = Stopping /\ _state'[a] = None
              /\ errors' = 1
              /\ _profileInfo' = _profileInfo
              /\ _elements' = _elements
              /\ published' = published
              /\ OthersUnchanged(a)
    /\ lastOp' = "run/Running" =>
          /\ _profileInfo' = _profileInfo
          /\ _elements' = _elements
          /\ published' = published
C4_StopFailure == [][C4_Step]_vars

\* the stop of the second session failed while the trace of the first is shown
C4_Witness ==
    /\ lastOp = "stopError" /\ errors = 1
    /\ _profileInfo # Null /\ _elements # <<>>
    /\ sessionsCreated = 2 /\ published[1] = 1 /\ published[2] = 0
    /\ \A a \in Actions : _state[a] = None

(***************************************************************************)
(* C5: when a stop request succeeds, the trace it returns becomes          *)
(* _profileInfo, _elements is resolved against it, the action object goes  *)
(* from Stopping to None, and no session's trace is published twice.       *)
(***************************************************************************)
C5_Step ==
    lastOp' = "stopThen" =>
        \E a \in Actions :
            /\ _state[a] = Stopping /\ _state'[a] = None
            /\ _profileInfo' \in Profiles
            /\ ~thrown'
            /\ _elements' = ResolveExtensions(_extensionsDescriptions', statusMap',
                                              local', _profileInfo')
            /\ \A session \in Sessions : published'[session] <= 1
            /\ \E session \in Sessions :
                  /\ published[session] = 0 /\ published'[session] = 1
                  /\ \A other \in Sessions \ {session} : published'[other] = published[other]
C5_StopSuccess == [][C5_Step]_vars

(***************************************************************************)
(* Resolves that returned.                                                 *)
(***************************************************************************)
\* the last handler ran _resolveExtensions, and it returned
Resolved == lastOp \in {"getExtensionsThen", "updateSoon", "stopThen"} /\ ~thrown
\* the last handler ran _resolveExtensions
ResolveRan == lastOp \in {"getExtensionsThen", "updateSoon", "stopThen"}

DescriptionIds == { _extensionsDescriptions[k].id : k \in 1..Len(_extensionsDescriptions) }
ElementIds == { _elements[k].description.id : k \in 1..Len(_elements) }

(***************************************************************************)
(* C6: after a resolve, every record of _elements belongs to an extension  *)
(* of _extensionsDescriptions whose status has activationTimes (one that   *)
(* never activated has no record, messages or not), and _elements is no    *)
(* longer than _extensionsDescriptions.                                    *)
(***************************************************************************)
C6_OnlyActivated ==
    Resolved =>
        /\ Len(_elements) <= Len(_extensionsDescriptions)
        /\ \A k \in 1..Len(_elements) :
              /\ _elements[k].description.id \in DescriptionIds
              /\ statusMap[_elements[k].description.id] # Undefined
              /\ statusMap[_elements[k].description.id].activationTimes # Undefined
              /\ _elements[k].status = statusMap[_elements[k].description.id]
        /\ \A id \in DescriptionIds :
              statusMap[id].activationTimes = Undefined => id \notin ElementIds

\* three descriptions, one of an extension that failed before it activated:
\* the other two have records
C6_Witness ==
    /\ Resolved
    /\ Len(_extensionsDescriptions) = 3 /\ Len(_elements) = 2
    /\ \E id \in DescriptionIds : statusMap[id] = Status(1, FALSE)

(***************************************************************************)
(* C7: a description without entry in the status map is no error: the      *)
(* resolve returns, without a record for it, the records of the others.    *)
(***************************************************************************)
C7_MissingStatusIsNoError ==
    (ResolveRan /\ \E id \in DescriptionIds : statusMap[id] = Undefined) =>
        /\ ~thrown
        /\ ElementIds = { id \in DescriptionIds :
                            /\ statusMap[id] # Undefined
                            /\ statusMap[id].activationTimes # Undefined }

(***************************************************************************)
(* C8, as the claim states it: the originalIndex values of a resolved list *)
(* of n records are exactly 0..n-1, each record's originalIndex being its  *)
(* place among the records that passed the filter.                         *)
(***************************************************************************)
C8_IndexInFilteredList ==
    Resolved =>
        { _elements[k].originalIndex : k \in 1..Len(_elements) } = 0..(Len(_elements) - 1)

(***************************************************************************)
(* C8, amended: each record's originalIndex is the place of its extension  *)
(* in _extensionsDescriptions, counted from 0 before the filter, so the    *)
(* values are distinct, lie in 0..len-1 of the descriptions, and ascend in *)
(* description order when no trace is active.                              *)
(***************************************************************************)
C8_IndexInDescriptions ==
    Resolved =>
        /\ \A k \in 1..Len(_elements) :
              /\ _elements[k].originalIndex \in 0..(Len(_extensionsDescriptions) - 1)
              /\ _extensionsDescriptions[_elements[k].originalIndex + 1]
                    = _elements[k].description
        /\ \A k, l \in 1..Len(_elements) :
              k # l => _elements[k].originalIndex # _elements[l].originalIndex
        /\ _profileInfo = Null =>
              \A k \in 1..(Len(_elements) - 1) :
                  _elements[k].originalIndex < _elements[k + 1].originalIndex

\* descriptions [A, B, C], B never activated, no trace: [A with 0, C with 2]
C8_Witness ==
    /\ Resolved /\ _profileInfo = Null
    /\ Len(_extensionsDescriptions) = 3
    /\ statusMap[_extensionsDescriptions[2].id] = Status(1, FALSE)
    /\ Len(_elements) = 2
    /\ _elements[1].description = _extensionsDescriptions[1] /\ _elements[1].originalIndex = 0
    /\ _elements[2].description = _extensionsDescriptions[3] /\ _elements[2].originalIndex = 2

(***************************************************************************)
(* C9: with a trace active, the resolved list descends by totalTime, ties  *)
(* ascending by originalIndex; no two records compare equal, and sorting   *)
(* the list again leaves it as it is.                                      *)
(***************************************************************************)
Before(r, s) ==
    \/ r.profileInfo.totalTime > s.profileInfo.totalTime
    \/ /\ r.profileInfo.totalTime = s.profileInfo.totalTime
       /\ r.originalIndex < s.originalIndex
C9_SortedByTotalTime ==
    (Resolved /\ _profileInfo # Null) =>
        /\ \A k \in 1..(Len(_elements) - 1) : Before(_elements[k], _elements[k + 1])
        /\ \A k, l \in 1..Len(_elements) :
              k # l => /\ Before(_elements[k], _elements[l]) # Before(_elements[l], _elements[k])
                       /\ CompareByProfile(_elements[k], _elements[l]) # 0
        /\ SortByProfile(_elements) = _elements

\* three records, the first two moved before an earlier description by
\* their time, the last two tied and in description order
C9_Witness ==
    /\ Resolved /\ _profileInfo # Null
    /\ Len(_elements) = 3
    /\ _elements[1].profileInfo.totalTime > _elements[2].profileInfo.totalTime
    /\ _elements[1].originalIndex > _elements[2].originalIndex
    /\ _elements[2].profileInfo.totalTime = _elements[3].profileInfo.totalTime
    /\ _elements[2].originalIndex < _elements[3].originalIndex

(***************************************************************************)
(* C10: the resolved list is determined by _extensionsDescriptions, the    *)
(* status map, the local extensions and _profileInfo as they are when the  *)
(* resolve runs, whatever happened before: its records are those of the    *)
(* activated descriptions, each made of these inputs alone, and their      *)
(* order is fixed by them. Two resolves of equal inputs so return equal    *)
(* lists.                                                                  *)
(***************************************************************************)
\* where entry i of a trace starts: startTime plus the deltas before it
EntryStart(profile, i) == profile.startTime + SumSeq(SubSeq(profile.deltas, 1, i - 1))
\* the entries of a trace that carry a label
EntriesOf(profile, id) == { i \in 1..Len(profile.ids) : profile.ids[i] = id }
\* the bounds of the first n entries of a trace that carry the label, in order
RECURSIVE BoundsOf(_, _, _)
BoundsOf(profile, id, n) ==
    IF n = 0 THEN <<>>
    ELSE IF profile.ids[n] = id
         THEN BoundsOf(profile, id, n - 1)
                \o <<EntryStart(profile, n), EntryStart(profile, n) + profile.deltas[n]>>
         ELSE BoundsOf(profile, id, n - 1)
RECURSIVE SumOver(_, _)
SumOver(profile, S) ==
    IF S = {} THEN 0
    ELSE LET i == CHOOSE i \in S : TRUE
         IN profile.deltas[i] + SumOver(profile, S \ {i})
\* the record the inputs of the state give description k
RecordOf(k) ==
    LET id == _extensionsDescriptions[k].id
    IN [originalIndex |-> k - 1,
        description |-> _extensionsDescriptions[k],
        marketplaceInfo |-> IF id \in local THEN [id |-> id] ELSE Undefined,
        status |-> statusMap[id],
        profileInfo |->
            IF _profileInfo = Null THEN Null
            ELSE [segments |-> BoundsOf(_profileInfo, id, Len(_profileInfo.ids)),
                  totalTime |-> SumOver(_profileInfo, EntriesOf(_profileInfo, id))]]
ActivatedDescriptions ==
    { k \in 1..Len(_extensionsDescriptions) :
        statusMap[_extensionsDescriptions[k].id].activationTimes # Undefined }
C10_DeterminedByInputs ==
    Resolved =>
        /\ { _elements[k] : k \in 1..Len(_elements) } = { RecordOf(k) : k \in ActivatedDescriptions }
        /\ Len(_elements) = Cardinality(ActivatedDescriptions)
        /\ \A k \in 1..(Len(_elements) - 1) :
              IF _profileInfo = Null
              THEN _elements[k].originalIndex < _elements[k + 1].originalIndex
              ELSE Before(_elements[k], _elements[k + 1])

\* a resolve of the refresh under the trace of a second session, after the
\* list was resolved without trace and under the trace of the first
C10_Witness ==
    /\ Resolved /\ lastOp = "updateSoon"
    /\ _profileInfo # Null
    /\ published[1] = 1 /\ published[2] = 1
    /\ Len(_elements) = 2
    /\ _elements[1].originalIndex > _elements[2].originalIndex

(***************************************************************************)
(* C11: a resolve without trace returns the records of the activated       *)
(* extensions in the order of their descriptions (ascending originalIndex) *)
(* and each record's profileInfo is null; a resolve with a trace gives     *)
(* every record a profileInfo that is not null.                            *)
(***************************************************************************)
\* the place of a description in _extensionsDescriptions
PositionOf(description) ==
    CHOOSE p \in 1..Len(_extensionsDescriptions) : _extensionsDescriptions[p] = description
C11_OrderAndProfileInfo ==
    Resolved =>
        /\ _profileInfo = Null =>
              /\ \A k \in 1..Len(_elements) : _elements[k].profileInfo = Null
              /\ \A k, l \in 1..Len(_elements) :
                    k < l => /\ PositionOf(_elements[k].description)
                                  < PositionOf(_elements[l].description)
                             /\ _elements[k].originalIndex < _elements[l].originalIndex
        /\ _profileInfo # Null =>
              \A k \in 1..Len(_elements) :
                  /\ _elements[k].profileInfo # Null
                  /\ DOMAIN _elements[k].profileInfo = {"segments", "totalTime"}

\* descriptions [C, A, B], all activated, no trace: the records of C, A, B
\* in that order, none with profile information
C11_Witness ==
    /\ Resolved /\ _profileInfo = Null
    /\ Len(_elements) = 3
    /\ _elements[1].description.id = "C"
    /\ _elements[2].description.id = "A"
    /\ _elements[3].description.id = "B"
    /\ _elements[3].profileInfo = Null

(***************************************************************************)
(* C12: for a trace whose deltas sum to endTime - startTime, the lengths   *)
(* of the intervals the grouping gives all labels together (extensions,    *)
(* idle, self) sum to endTime - startTime, and the last interval it        *)
(* produces, that of the last entry's label, ends at endTime.              *)
(***************************************************************************)
\* the sum of end - start over the pairs of a flat interval array
RECURSIVE LengthOf(_)
LengthOf(flat) ==
    IF Len(flat) < 2 THEN 0
    ELSE (flat[2] - flat[1]) + LengthOf(SubSeq(flat, 3, Len(flat)))
RECURSIVE LengthOfAll(_, _)
LengthOfAll(segs, ids) ==
    IF ids = {} THEN 0
    ELSE LET id == CHOOSE id \in ids : TRUE
         IN LengthOf(segs[id]) + LengthOfAll(segs, ids \ {id})
C12_IntervalsCoverTrace ==
    (ResolveRan /\ _profileInfo # Null
       /\ SumSeq(_profileInfo.deltas) = _profileInfo.endTime - _profileInfo.startTime) =>
        LET segs == segments(_profileInfo)
            n == Len(_profileInfo.ids)
        IN /\ LengthOfAll(segs, Labels) = _profileInfo.endTime - _profileInfo.startTime
           /\ n > 0 =>
                 /\ Len(segs[_profileInfo.ids[n]]) >= 2
                 /\ segs[_profileInfo.ids[n]][Len(segs[_profileInfo.ids[n]])]
                       = _profileInfo.endTime

\* a resolve under a trace of an idle entry and an entry of an extension
C12_Witness ==
    /\ ResolveRan /\ _profileInfo # Null
    /\ Len(_profileInfo.ids) = 2
    /\ _profileInfo.ids[1] = "idle" /\ _profileInfo.ids[2] = "A"
    /\ _profileInfo.deltas = <<2, 0>>
    /\ _profileInfo.endTime = _profileInfo.startTime + 2

(***************************************************************************)
(* C13: for a trace without negative deltas, the segments of every label   *)
(* are ordered by start and do not overlap (start <= end within a segment, *)
(* end <= start of the next), the segments of two different labels do not  *)
(* overlap, and the records of a resolved list carry these segments.       *)
(***************************************************************************)
\* segment j of a flat interval array
SegmentStart(flat, j) == flat[2 * j - 1]
SegmentEnd(flat, j) == flat[2 * j]
SegmentCount(flat) == Len(flat) \div 2
\* two intervals share more than a bound
Overlap(s1, e1, s2, e2) == s1 < e2 /\ s2 < e1
C13_SegmentsOrderedDisjoint ==
    (ResolveRan /\ _profileInfo # Null
       /\ \A i \in 1..Len(_profileInfo.deltas) : _profileInfo.deltas[i] >= 0) =>
        LET segs == segments(_profileInfo)
        IN /\ \A id \in Labels :
                 /\ Len(segs[id]) = 2 * SegmentCount(segs[id])
                 /\ \A j \in 1..SegmentCount(segs[id]) :
                       SegmentStart(segs[id], j) <= SegmentEnd(segs[id], j)
                 /\ \A j \in 1..(SegmentCount(segs[id]) - 1) :
                       /\ SegmentEnd(segs[id], j) <= SegmentStart(segs[id], j + 1)
                       /\ SegmentStart(segs[id], j) <= SegmentStart(segs[id], j + 1)
           /\ \A id1, id2 \in Labels :
                 id1 # id2 =>
                     \A j1 \in 1..SegmentCount(segs[id1]), j2 \in 1..SegmentCount(segs[id2]) :
                         ~Overlap(SegmentStart(segs[id1], j1), SegmentEnd(segs[id1], j1),
                                  SegmentStart(segs[id2], j2), SegmentEnd(segs[id2], j2))
           /\ Resolved =>
                 \A k \in 1..Len(_elements) :
                     _elements[k].profileInfo.segments = segs[_elements[k].description.id]

\* a record with two segments, the second beginning where the first ends
C13_Witness ==
    /\ Resolved /\ _profileInfo # Null
    /\ _profileInfo.ids = <<"A", "A">> /\ _profileInfo.deltas = <<2, 2>>
    /\ \E k \in 1..Len(_elements) :
          /\ _elements[k].description.id = "A"
          /\ _elements[k].profileInfo.segments
                = <<_profileInfo.startTime, _profileInfo.startTime + 2,
                    _profileInfo.startTime + 2, _profileInfo.startTime + 4>>

(***************************************************************************)
(* C14: under a trace, the segments of an extension's record are the       *)
(* intervals [cursor, cursor + delta] of the trace entries that carry its  *)
(* identifier, in trace order, cursor being startTime plus the deltas of   *)
(* the entries before, and its totalTime is the sum of the deltas of these *)
(* entries; an extension the trace does not name has no segment and        *)
(* totalTime 0. For start 1000 and (A,500), (B,300), (A,200): A has        *)
(* (1000,1500), (1800,2000) and 700, B has (1500,1800) and 300, and A's    *)
(* record comes before B's.                                                *)
(***************************************************************************)
C14_SegmentsOfTrace ==
    (Resolved /\ _profileInfo # Null) =>
        /\ \A k \in 1..Len(_elements) :
              LET id == _elements[k].description.id
                  info == _elements[k].profileInfo
              IN /\ info.segments = BoundsOf(_profileInfo, id, Len(_profileInfo.ids))
                 /\ info.totalTime = SumOver(_profileInfo, EntriesOf(_profileInfo, id))
                 /\ EntriesOf(_profileInfo, id) = {} =>
                       info.segments = <<>> /\ info.totalTime = 0
        /\ _profileInfo = ScenarioProfile =>
              \A k, l \in 1..Len(_elements) :
                  /\ _elements[k].description.id = "A" =>
                        _elements[k].profileInfo
                          = [segments |-> <<1000, 1500, 1800, 2000>>, totalTime |-> 700]
                  /\ _elements[k].description.id = "B" =>
                        _elements[k].profileInfo
                          = [segments |-> <<1500, 1800>>, totalTime |-> 300]
                  /\ (_elements[k].description.id = "A" /\ _elements[l].description.id = "B")
                        => k < l

\* descriptions [B, A], both activated, under the trace of the scenario:
\* the records of A and B, in that order
C14_Witness ==
    /\ Resolved /\ _profileInfo = ScenarioProfile
    /\ Len(_extensionsDescriptions) = 2 /\ _extensionsDescriptions[1].id = "B"
    /\ Len(_elements) = 2
    /\ _elements[1].description.id = "A" /\ _elements[1].originalIndex = 1
    /\ _elements[2].description.id = "B" /\ _elements[2].originalIndex = 0

(***************************************************************************)
(* C15: a status-change notification arms the scheduler and resolves       *)
(* nothing, whether the scheduler was armed or not; the scheduler is       *)
(* disarmed by its timeout alone, which runs one resolve against the       *)
(* status map of that moment, so the notifications of one delay window     *)
(* give one resolve; and an armed scheduler fires in the end.              *)
(***************************************************************************)
C15_Step ==
    /\ lastOp' = "onDidChangeExtensionsStatus" =>
          /\ _updateSoon'
          /\ _elements' = _elements
          /\ ~thrown'
    /\ (~_updateSoon /\ _updateSoon') => lastOp' = "onDidChangeExtensionsStatus"
    /\ (_updateSoon /\ ~_updateSoon') => lastOp' = "updateSoon"
    /\ lastOp' = "updateSoon" =>
          /\ _updateSoon /\ ~_updateSoon'
          /\ statusMap' = statusMap
          /\ thrown' = (\E k \in 1..Len(_extensionsDescriptions') :
                           statusMap'[_extensionsDescriptions'[k].id] = Undefined)
          /\ ~thrown' =>
                /\ { _elements'[k].description.id : k \in 1..Len(_elements') }
                      = { _extensionsDescriptions'[k].id : k \in
                            { j \in 1..Len(_extensionsDescriptions') :
                                statusMap'[_extensionsDescriptions'[j].id].activationTimes
                                    # Undefined } }
                /\ \A k \in 1..Len(_elements') :
                      _elements'[k].status = statusMap'[_elements'[k].description.id]
C15_CoalescedRefresh ==
    /\ [][C15_Step]_vars
    /\ _updateSoon ~> ~_updateSoon

\* the statuses of both extensions changed, which takes two notifications,
\* and the timeout has resolved the list of the two
C15_Witness ==
    /\ lastOp = "updateSoon" /\ ~thrown /\ ~_updateSoon
    /\ extensionsLoaded /\ _profileInfo = Null
    /\ Len(_elements) = 2

C16_Step ==
    lastOp' = "stopThen" =>
        /\ _updateSoon' = _updateSoon
        /\ _profileInfo' \in Profiles
        /\ statusMap' = statusMap
        /\ thrown' = (\E k \in 1..Len(_extensionsDescriptions') :
                         statusMap'[_extensionsDescriptions'[k].id] = Undefined)
        /\ thrown' => _elements' = _elements
        /\ ~thrown' =>
              /\ { _elements'[k].description.id : k \in 1..Len(_elements') }
                    = { _extensionsDescriptions'[k].id : k \in
                          { j \in 1..Len(_extensionsDescriptions') :
                              statusMap'[_extensionsDescriptions'[j].id].activationTimes
                                  # Undefined } }
              /\ \A k \in 1..Len(_elements') :
                    /\ _elements'[k].status = statusMap'[_elements'[k].description.id]
                    /\ _elements'[k].profileInfo # Null
                    /\ _elements'[k].profileInfo.segments
                          = BoundsOf(_profileInfo', _elements'[k].description.id,
                                     Len(_profileInfo'.ids))
              /\ \A k \in 1..(Len(_elements') - 1) : Before(_elements'[k], _elements'[k + 1])
C17_NeverStuck ==
    \A a \in Actions :
        /\ (_state[a] = Starting) ~> (_state[a] \in {Running, None})
        /\ (_state[a] = Stopping) ~> (_state[a] = None)

(***************************************************************************)
(* C18: after every handler an action object holds a session exactly when  *)
(* its _state is Running. The session is stored by the start-success       *)
(* callback, and is one the host has not handed out before; it is dropped  *)
(* by the run() that enters Stopping and issues the stop request for it.   *)
(* A stop request is issued for a session only in the step that drops it,  *)
(* so no session gets a second one.                                        *)
(***************************************************************************)
\* the stop requests outstanding for a session
StopRequestsFor(bag, session) ==
    LET S == { r \in BagToSet(bag) : r.kind = "stop" /\ r.session = session }
        RECURSIVE Count(_)
        Count(T) == IF T = {} THEN 0
                    ELSE LET r == CHOOSE r \in T : TRUE
                         IN CopiesIn(r, bag) + Count(T \ {r})
    IN Count(S)
C18_Step ==
    /\ \A a \in Actions :
          /\ (_profileSession'[a] # NoSession) <=> (_state'[a] = Running)
          /\ (_profileSession'[a] # _profileSession[a] /\ _profileSession'[a] # NoSession) =>
                /\ lastOp' = "startThen"
                /\ _state[a] = Starting /\ _profileSession[a] = NoSession
                /\ sessionsCreated' = sessionsCreated + 1
                /\ _profileSession'[a] = sessionsCreated'
                /\ StopRequestsFor(requests', _profileSession'[a]) = 0
                /\ \A b \in Actions \ {a} : _profileSession'[b] # _profileSession'[a]
          /\ (_profileSession[a] # NoSession /\ _profileSession'[a] # _profileSession[a]) =>
                /\ lastOp' = "run/Running"
                /\ _profileSession'[a] = NoSession
                /\ _state[a] = Running /\ _state'[a] = Stopping
                /\ StopRequestsFor(requests', _profileSession[a]) = 1
    /\ \A session \in Sessions :
          /\ StopRequestsFor(requests', session) <= 1
          /\ StopRequestsFor(requests', session) > StopRequestsFor(requests, session) =>
                \E a \in Actions :
                    _profileSession[a] = session /\ _profileSession'[a] = NoSession
          /\ session > sessionsCreated' => StopRequestsFor(requests', session) = 0
C18_SessionIffRunning == [][C18_Step]_vars

\* run() on a Running action: it is in Stopping, holds no session, and the
\* stop request for the session it held is outstanding
C18_Witness ==
    /\ lastOp = "run/Running"
    /\ actions = 1 /\ _state[1] = Stopping /\ _profileSession[1] = NoSession
    /\ sessionsCreated = 1
    /\ StopRequestsFor(requests, 1) = 1

(***************************************************************************)
(* C19: over all the action objects getActions() has handed out, at most   *)
(* one holds a session and at most one start or stop request is            *)
(* outstanding at the extension host.                                      *)
(***************************************************************************)
LiveSessions == { a \in Actions : _profileSession[a] # NoSession }
C19_OneSessionPerEditor ==
    /\ Cardinality(LiveSessions) <= 1
    /\ BagCardinality(requests) <= 1

(***************************************************************************)
(* C20: after every handler an action object shows LABEL_STOP and          *)
(* STOP_CSS_CLASS exactly when its _state is Running or Stopping, and      *)
(* LABEL_START and START_CSS_CLASS exactly when it is None or Starting. In *)
(* Stopping the label is the stop label although the session is dropped,   *)
(* and a failed start or stop brings the start label back.                 *)
(***************************************************************************)
ShowsStop(a) == label'[a] = LABEL_STOP /\ class'[a] = STOP_CSS_CLASS
ShowsStart(a) == label'[a] = LABEL_START /\ class'[a] = START_CSS_CLASS
C20_Step ==
    \A a \in Actions :
        /\ ShowsStop(a) <=> _state'[a] \in {Running, Stopping}
        /\ ShowsStart(a) <=> _state'[a] \in {None, Starting}
        /\ _state'[a] = Stopping => (_profileSession'[a] = NoSession /\ ShowsStop(a))
        /\ (lastOp' \in {"startError", "stopError"} /\ _state'[a] # _state[a]) =>
              (_state'[a] = None /\ ShowsStart(a))
C20_LabelFollowsState == [][C20_Step]_vars

\* an action in Stopping: the stop label and class, no session
C20_Witness ==
    /\ lastOp = "run/Running"
    /\ actions = 1 /\ _state[1] = Stopping
    /\ label[1] = LABEL_STOP /\ class[1] = STOP_CSS_CLASS
    /\ _profileSession[1] = NoSession

(***************************************************************************)
(* C21: _profileInfo changes only in the step of a stop that succeeded.    *)
(* run() in any state, a start that succeeded or failed, a stop that       *)
(* failed, the notifications and the resolves of the refresh leave it as   *)
(* it is, and once set it is never null again. The trace of an earlier     *)
(* session so orders every list resolved during a later one.               *)
(***************************************************************************)
C21_Step ==
    /\ _profileInfo' # _profileInfo =>
          /\ lastOp' = "stopThen"
          /\ _profileInfo' \in Profiles
    /\ lastOp' \in {"run/None", "run/Starting", "run/Running", "run/Stopping",
                     "startThen", "startError", "stopError", "getActions",
                     "onDidChangeExtensionsStatus", "updateSoon", "getExtensionsThen"}
          => _profileInfo' = _profileInfo
    /\ _profileInfo # Null => _profileInfo' # Null
    /\ (lastOp' \in {"updateSoon", "getExtensionsThen"} /\ ~thrown' /\ _profileInfo # Null) =>
          /\ \A k \in 1..Len(_elements') :
                /\ _elements'[k].profileInfo # Null
                /\ _elements'[k].profileInfo.segments
                      = BoundsOf(_profileInfo, _elements'[k].description.id,
                                 Len(_profileInfo.ids))
                /\ _elements'[k].profileInfo.totalTime
                      = SumOver(_profileInfo, EntriesOf(_profileInfo,
                                                        _elements'[k].description.id))
          /\ \A k \in 1..(Len(_elements') - 1) : Before(_elements'[k], _elements'[k + 1])
C21_TraceChangesOnStopSuccess == [][C21_Step]_vars

\* the second session is running and the refresh has resolved the list:
\* the trace of the first session orders it, B before A
C21_Witness ==
    /\ lastOp = "updateSoon" /\ ~thrown
    /\ sessionsCreated = 2 /\ published[1] = 1 /\ published[2] = 0
    /\ actions = 1 /\ _state[1] = Running
    /\ _profileInfo # Null
    /\ Len(_elements) = 2
    /\ _elements[1].originalIndex > _elements[2].originalIndex

====
